---- MODULE Spec2Model ----
(***************************************************************************)
(* A model of the file organizer of src/file_organizer.py: the directory   *)
(* tree, the movement log (file_movement_log.json), the custom rules       *)
(* (custom_rules.json), the organize pass, undo, the retrying move and the *)
(* watchdog event handler.                                                 *)
(*                                                                         *)
(* Paths, extensions and folder names are strings; a JSON object is the    *)
(* sequence of its <<key, value>> pairs in insertion order.                *)
(***************************************************************************)
EXTENDS FiniteSets, Integers, Sequences, TLC

VARIABLES files, dirs, logFile, rulesFile, passes, observer, retryCall, classifyCall, alerts, undoRec, ruleRec, runs, created, faults

vars == <<files, dirs, logFile, rulesFile, passes, observer, retryCall, classifyCall, alerts, undoRec, ruleRec, runs, created, faults>>

(***************************************************************************)
(* Bounds of the model.                                                    *)
(***************************************************************************)
\* number of files in the initial directory tree
MaxFiles == 3

\* number of runs of main() in one behaviour
MaxRuns == 2

\* number of externally created entries while the directory is monitored
MaxCreated == 2

\* number of injected I/O failures in one behaviour
MaxFaults == 1

\* largest value of the retries parameter of retry_move_file that is tried
MaxRetries == 4

(***************************************************************************)
(* Strings.                                                                *)
(***************************************************************************)
Char(s, i) == SubSeq(s, i, i)

\* Python's "q in s" on strings
Contains(q, s) == \E i \in 1..(Len(s) - Len(q) + 1) : SubSeq(s, i, i + Len(q) - 1) = q

\* str.rfind, 1-based, 0 when absent
LastIndexOf(c, s) == LET I == {i \in 1..Len(s) : Char(s, i) = c} IN IF I = {} THEN 0 ELSE CHOOSE i \in I : \A j \in I : j <= i

UpperCase == <<"A", "B", "C", "D", "E", "F", "G", "H", "I", "J", "K", "L", "M", "N", "O", "P", "Q", "R", "S", "T", "U", "V", "W", "X", "Y", "Z">>

LowerCase == <<"a", "b", "c", "d", "e", "f", "g", "h", "i", "j", "k", "l", "m", "n", "o", "p", "q", "r", "s", "t", "u", "v", "w", "x", "y", "z">>

RECURSIVE lower(_)
lower(s) == IF s = "" THEN "" ELSE LET c == Char(s, 1)
                                        I == {i \in 1..Len(UpperCase) : UpperCase[i] = c}
                                    IN (IF I = {} THEN c ELSE LowerCase[CHOOSE i \in I : TRUE]) \o lower(SubSeq(s, 2, Len(s)))

\* os.path.join of two components
join(a, b) == IF b # "" /\ Char(b, 1) = "/" THEN b ELSE IF a = "" \/ Char(a, Len(a)) = "/" THEN a \o b ELSE a \o "/" \o b

basename(p) == SubSeq(p, LastIndexOf("/", p) + 1, Len(p))

dirname(p) == LET i == LastIndexOf("/", p) IN IF i = 0 THEN "" ELSE IF i = 1 THEN "/" ELSE SubSeq(p, 1, i - 1)

\* os.path.splitext(filename)[1]: from the last dot, unless only dots precede it
splitext(name) == LET d == LastIndexOf(".", name) IN IF d > 0 /\ (\E i \in 1..(d - 1) : Char(name, i) # ".") THEN SubSeq(name, d, Len(name)) ELSE ""

\* every ancestor directory of p, p included, up to the working directory
RECURSIVE Ancestors(_)
Ancestors(p) == IF p = "" \/ p = "/" THEN {} ELSE {p} \cup Ancestors(dirname(p))

\* all orderings of a finite set
Perms(S) == {s \in [1..Cardinality(S) -> S] : \A i, j \in 1..Cardinality(S) : s[i] = s[j] => i = j}

(***************************************************************************)
(* JSON objects (Python dicts): sequences of <<key, value>>, unique keys.  *)
(***************************************************************************)
EmptyDict == <<>>

DictKeys(d) == {d[i][1] : i \in 1..Len(d)}

DictHas(d, k) == k \in DictKeys(d)

DictGet(d, k) == d[CHOOSE i \in 1..Len(d) : d[i][1] = k][2]

\* dict.update({k: v}): an existing key keeps its place, a new key goes last
DictUpdate(d, k, v) == IF DictHas(d, k) THEN [i \in 1..Len(d) |-> IF d[i][1] = k THEN <<k, v>> ELSE d[i]] ELSE Append(d, <<k, v>>)

\* number of characters json.dump(d, indent=4) writes
RECURSIVE JsonEntriesLen(_)
JsonEntriesLen(d) == IF d = <<>> THEN 0 ELSE 4 + (Len(d[1][1]) + 2) + 2 + (Len(d[1][2]) + 2) + (IF Len(d) > 1 THEN 2 ELSE 0) + JsonEntriesLen(Tail(d))

JsonLen(d) == IF d = <<>> THEN 2 ELSE 2 + JsonEntriesLen(d) + 2

(***************************************************************************)
(* Classification.                                                         *)
(***************************************************************************)
\* the built-in table: extension groups and their folder, in source order
EXTENSIONS == <<
    <<{".stl", ".obj", ".fbx", ".blend", ".dae", ".3ds", ".ply"}, "3DModels">>,
    <<{".jpg", ".jpeg", ".png", ".gif", ".bmp", ".tiff", ".svg", ".heic", ".webp"}, "Images">>,
    <<{".mp4", ".mkv", ".mov", ".avi", ".wmv", ".flv", ".webm", ".mpeg"}, "Videos">>,
    <<{".mp3", ".wav", ".flac", ".aac", ".ogg", ".m4a", ".wma", ".aiff"}, "Audio">>,
    <<{".doc", ".docx", ".pdf", ".txt", ".rtf", ".odt", ".tex", ".md"}, "Documents">>,
    <<{".xlsx", ".xls", ".csv", ".ods"}, "Spreadsheets">>,
    <<{".ppt", ".pptx", ".key", ".odp"}, "Presentations">>,
    <<{".py", ".java", ".cpp", ".c", ".cs", ".js", ".ts", ".html", ".css", ".php", ".rb", ".swift", ".go", ".rs"}, "Code">>,
    <<{".zip", ".rar", ".7z", ".tar", ".gz", ".bz2", ".xz"}, "Archives">>,
    <<{".exe", ".msi", ".sh", ".bat", ".apk", ".dmg"}, "Executables">>,
    <<{".ttf", ".otf", ".woff", ".woff2"}, "Fonts">>,
    <<{".epub", ".mobi", ".azw", ".azw3"}, "Ebooks">>,
    <<{".dwg", ".dxf"}, "CAD">>,
    <<{".iso", ".img"}, "DiskImages">>,
    <<{".sln", ".log", ".cfg", ".ini", ".bak"}, "Others">> >>

\* the first group, in table order, that contains the extension; else "Others"
get_folder_name(extension, extensions_map) == LET I == {i \in 1..Len(extensions_map) : extension \in extensions_map[i][1]} IN IF I = {} THEN "Others" ELSE extensions_map[CHOOSE i \in I : \A j \in I : i <= j][2]

\* custom_rules.get(file_extension) or get_folder_name(file_extension, EXTENSIONS)
folder_name_of(file_extension, custom_rules) == IF DictHas(custom_rules, file_extension) /\ DictGet(custom_rules, file_extension) # "" THEN DictGet(custom_rules, file_extension) ELSE get_folder_name(file_extension, EXTENSIONS)

(***************************************************************************)
(* The directory tree: files maps the path of each file to its content,    *)
(* dirs is the set of directories.  The working directory "" always exists.*)
(***************************************************************************)
DirExists(d) == d = "" \/ d \in dirs

FileExists(p) == p \in DOMAIN files

\* os.path.exists
exists(p) == FileExists(p) \/ DirExists(p)

\* names of the files and of the directories directly inside directory d
ListFiles(fs, d) == {basename(p) : p \in {q \in DOMAIN fs : dirname(q) = d}}

ListDirs(ds, d) == {basename(p) : p \in {q \in ds : dirname(q) = d}}

\* os.makedirs(d, exist_ok=True) succeeds unless a file is in the way
makedirs_ok(fs, d) == \A a \in Ancestors(d) : a \notin DOMAIN fs

makedirs(ds, d) == ds \cup Ancestors(d)

\* the function f without the key k
Without(f, k) == [q \in DOMAIN f \ {k} |-> f[q]]

\* shutil.move(src, dst): where the file lands (inside dst when dst is a directory)
real_dst(ds, src, dst) == IF dst \in ds THEN join(dst, basename(src)) ELSE dst

\* shutil.move raises when the source is missing, the destination's directory
\* is missing, or the name is taken inside a destination directory
move_ok(fs, ds, src, dst) == /\ src \in DOMAIN fs
                             /\ real_dst(ds, src, dst) \notin ds
                             /\ (dst \in ds => real_dst(ds, src, dst) \notin DOMAIN fs)
                             /\ (dirname(real_dst(ds, src, dst)) = "" \/ dirname(real_dst(ds, src, dst)) \in ds)

\* the files after a successful move: the destination is replaced
move(fs, ds, src, dst) == LET rd == real_dst(ds, src, dst) IN IF rd = src THEN fs ELSE (rd :> fs[src]) @@ Without(fs, src)

\* the MD5 digest of a content
Md5 == [c \in {"x", "y"} |-> "md5-" \o c]

(***************************************************************************)
(* The stored JSON files.  size is the length of the file on disk: a file  *)
(* longer than the text of its object has trailing bytes and cannot be     *)
(* parsed.                                                                 *)
(***************************************************************************)
NoFile == [exists |-> FALSE, data |-> EmptyDict, size |-> 0]

Parses(f) == f.size = JsonLen(f.data)

\* open(name, "w") and json.dump: the file is truncated and rewritten
write_json(d) == [exists |-> TRUE, data |-> d, size |-> JsonLen(d)]

\* open(name, "r+"), seek(0) and json.dump: the old tail stays when the new text is shorter
overwrite_json(f, d) == [exists |-> TRUE, data |-> d, size |-> IF JsonLen(d) > f.size THEN JsonLen(d) ELSE f.size]

load_custom_rules == IF rulesFile.exists THEN rulesFile.data ELSE EmptyDict

\* save_custom_rules that stores the newest rule only
save_custom_rules_newest(rules) == write_json(IF rules = <<>> THEN rules ELSE <<rules[Len(rules)]>>)

save_custom_rules(rules) == write_json(rules)

\* log_movement(src, dest): the log file after the call (the file must parse)
log_movement(f, src, dest) == LET g == IF f.exists THEN f ELSE write_json(EmptyDict) IN overwrite_json(g, DictUpdate(g.data, src, dest))

log_movement_ok(f) == f.exists => Parses(f)

(***************************************************************************)
(* The organize pass (organize_files).  passes is the sequence of the      *)
(* activations of organize_files of the running process; each has its own  *)
(* locals.  scanned and moves record what the loop did, and before is the  *)
(* tree the pass started on, for the properties.                           *)
(***************************************************************************)
NewPass(directory, thread) == [thread |-> thread, pc |-> "walk", directory |-> directory, custom_rules |-> load_custom_rules, hash_map |-> EmptyDict, duplicates |-> <<>>, stack |-> <<directory>>, root |-> "", todo |-> <<>>, choice |-> "", scanned |-> <<>>, unread |-> <<>>, moves |-> <<>>, before |-> files]

InFlight(p) == p.pc \in {"walk", "prune"}

SetPass(t, p) == passes' = [passes EXCEPT ![t] = p]

\* os.walk(directory), top-down: the next directory is listed when the loop
\* reaches it; the order of the entries is the file system's
WalkNext(t) == LET p == passes[t]
                   top == Head(p.stack)
               IN /\ p.pc = "walk" /\ p.todo = <<>> /\ p.stack # <<>>
                  /\ IF top \in dirs
                     THEN \E fo \in Perms(ListFiles(files, top)), do \in Perms(ListDirs(dirs, top)) :
                             SetPass(t, [p EXCEPT !.root = top, !.todo = fo, !.stack = [i \in 1..Len(do) |-> join(top, do[i])] \o Tail(p.stack)])
                     ELSE SetPass(t, [p EXCEPT !.stack = Tail(p.stack)])
                  /\ UNCHANGED <<files, dirs, logFile, rulesFile, observer, retryCall, classifyCall, alerts, undoRec, ruleRec, runs, created, faults>>

\* the pass ends with an exception that organize_files does not catch
Crash(t, p) == /\ SetPass(t, [p EXCEPT !.pc = "crashed"])
               /\ observer' = IF p.thread = "observer" THEN [observer EXCEPT !.state = "dead"] ELSE observer

\* the results get_file_hash can have: the digest, the error of a missing
\* file, or an injected read error
HashResults(fs, file_path) == (IF file_path \in DOMAIN fs THEN {"ok"} ELSE {"FileNotFoundError"}) \cup (IF faults < MaxFaults THEN {"IOError"} ELSE {})

\* the results shutil.move can have: what the tree allows, or an injected failure
MoveResults(ds, src, dst) == (IF move_ok(files, ds, src, dst) THEN {"ok"} ELSE {"Exception"}) \cup (IF faults < MaxFaults THEN {"PermissionError", "Exception"} ELSE {})

Injected(ds, result, src, dst) == result # "ok" /\ move_ok(files, ds, src, dst)

\* the results log_movement can have once shutil.move returned: the record is
\* written, the stored log cannot be parsed, or an injected I/O error
LogResults(f, result) == IF result # "ok" THEN {"not called"} ELSE (IF log_movement_ok(f) THEN {"ok"} ELSE {"JSONDecodeError"}) \cup (IF faults < MaxFaults THEN {"IOError"} ELSE {})

\* the record written whatever shutil.move did
recorded_always(result, logres) == logres \in {"ok", "not called"}

\* log_movement follows shutil.move inside the try block: the record is
\* written when the move returned and the write did not raise
recorded(result, logres) == result = "ok" /\ logres = "ok"

\* duplicate_info with the two paths exchanged
duplicate_info_swapped(file_path, hash_map, file_hash) == <<DictGet(hash_map, file_hash), file_path>>

\* duplicate_info = (file_path, hash_map[file_hash])
duplicate_info(file_path, hash_map, file_hash) == <<file_path, DictGet(hash_map, file_hash)>>

\* one iteration of the loop over the files of a directory
ProcessFile(t) == LET p == passes[t]
                      filename == Head(p.todo)
                      file_path == join(p.root, filename)
                      file_extension == lower(splitext(filename))
                      folder_name == folder_name_of(file_extension, p.custom_rules)
                      target_folder == join(p.directory, folder_name)
                      new_path == join(target_folder, filename)
                      q == [p EXCEPT !.todo = Tail(p.todo)]
                  IN /\ p.pc = "walk" /\ p.todo # <<>>
                     /\ UNCHANGED <<rulesFile, retryCall, classifyCall, alerts, undoRec, ruleRec, runs, created>>
                     /\ IF ~makedirs_ok(files, target_folder)
                        THEN Crash(t, q) /\ UNCHANGED <<files, dirs, logFile, faults>>
                        ELSE \E hashed \in HashResults(files, file_path) :
                             IF hashed # "ok"
                             THEN /\ Crash(t, [q EXCEPT !.unread = Append(p.unread, file_path)])
                                  /\ dirs' = makedirs(dirs, target_folder)
                                  /\ faults' = IF hashed = "IOError" THEN faults + 1 ELSE faults
                                  /\ UNCHANGED <<files, logFile>>
                             ELSE LET file_hash == Md5[files[file_path]]
                                      ds == makedirs(dirs, target_folder)
                                      seen == [q EXCEPT !.scanned = Append(p.scanned, [path |-> file_path, digest |-> file_hash])]
                                  IN IF DictHas(p.hash_map, file_hash)
                                     THEN /\ SetPass(t, [seen EXCEPT !.duplicates = Append(p.duplicates, duplicate_info(file_path, p.hash_map, file_hash))])
                                          /\ dirs' = ds
                                          /\ UNCHANGED <<files, logFile, observer, faults>>
                                     ELSE \E result \in MoveResults(ds, file_path, new_path) : \E logres \in LogResults(logFile, result) :
                                             LET logged == recorded(result, logres)
                                             IN /\ SetPass(t, [seen EXCEPT !.hash_map = DictUpdate(p.hash_map, file_hash, file_path),
                                                                           !.moves = Append(p.moves, [src |-> file_path, dst |-> new_path, result |-> result, attempts |-> 1, logged |-> logged, logres |-> logres])])
                                                /\ dirs' = ds
                                                /\ files' = IF result = "ok" THEN move(files, ds, file_path, new_path) ELSE files
                                                /\ logFile' = IF logged THEN log_movement(logFile, file_path, new_path) ELSE logFile
                                                /\ faults' = IF Injected(ds, result, file_path, new_path) \/ logres = "IOError" THEN faults + 1 ELSE faults
                                                /\ UNCHANGED observer

\* delete_files: os.remove of every duplicate, an error is logged and skipped
RECURSIVE delete_files(_, _)
delete_files(fs, duplicates) == IF duplicates = <<>> THEN fs ELSE delete_files(IF duplicates[1][1] \in DOMAIN fs THEN Without(fs, duplicates[1][1]) ELSE fs, Tail(duplicates))

\* os.rename(src, dst) of a file: replaces a file at dst
rename_ok(fs, ds, src, dst) == src \in DOMAIN fs /\ dst \notin ds /\ (dirname(dst) = "" \/ dirname(dst) \in ds)

\* backup_duplicates, after the backup directory was made: os.rename of every
\* duplicate to backup_dir/basename, an error is logged and skipped
RECURSIVE backup_duplicates(_, _, _, _)
backup_duplicates(fs, ds, duplicates, backup_dir) == IF duplicates = <<>> THEN fs ELSE LET dup == duplicates[1][1]
                                                                                             backup_path == join(backup_dir, basename(dup))
                                                                                         IN backup_duplicates(IF rename_ok(fs, ds, dup, backup_path) /\ backup_path # dup THEN (backup_path :> fs[dup]) @@ Without(fs, dup) ELSE fs, ds, Tail(duplicates), backup_dir)

\* the end of the scan: handle_duplicates(duplicates), with the user's answer
handle_duplicates(t) == LET p == passes[t]
                        IN /\ p.pc = "walk" /\ p.todo = <<>> /\ p.stack = <<>>
                           /\ UNCHANGED <<logFile, rulesFile, retryCall, classifyCall, alerts, undoRec, ruleRec, runs, created, faults>>
                           /\ IF p.duplicates = <<>>
                              THEN SetPass(t, [p EXCEPT !.pc = "prune"]) /\ UNCHANGED <<files, dirs, observer>>
                              ELSE \E choice \in {"yes", "no", "backup"} :
                                      LET q == [p EXCEPT !.pc = "prune", !.choice = choice]
                                      IN CASE choice = "yes" -> SetPass(t, q) /\ files' = delete_files(files, p.duplicates) /\ UNCHANGED <<dirs, observer>>
                                           [] choice = "no" -> SetPass(t, q) /\ UNCHANGED <<files, dirs, observer>>
                                           [] choice = "backup" -> IF makedirs_ok(files, "backup")
                                                                   THEN /\ SetPass(t, q)
                                                                        /\ dirs' = makedirs(dirs, "backup")
                                                                        /\ files' = backup_duplicates(files, makedirs(dirs, "backup"), p.duplicates, "backup")
                                                                        /\ UNCHANGED observer
                                                                   ELSE Crash(t, [p EXCEPT !.choice = choice]) /\ UNCHANGED <<files, dirs>>

\* the clean-up loop: os.walk(directory, topdown=False) visits the
\* subdirectories of a directory before it, and removes each one that
\* os.listdir finds empty
RECURSIVE PruneDir(_, _, _), PruneSubtrees(_, _, _)
PruneSubtrees(fs, ds, S) == IF S = {} THEN ds ELSE LET d == CHOOSE x \in S : TRUE IN PruneSubtrees(fs, PruneDir(fs, ds, d), S \ {d})

\* the clean-up that takes the entries of each directory as they were when
\* the walk began
PruneDir_listed(fs, ds, top) == LET subs == {join(top, n) : n \in ListDirs(ds, top)}
                                    below == PruneSubtrees(fs, ds, subs)
                                IN below \ {d \in subs : ListFiles(fs, d) = {} /\ ListDirs(ds, d) = {}}

PruneDir(fs, ds, top) == LET subs == {join(top, n) : n \in ListDirs(ds, top)}
                             below == PruneSubtrees(fs, ds, subs)
                         IN below \ {d \in subs : ListFiles(fs, d) = {} /\ ListDirs(below, d) = {}}

Prune(t) == LET p == passes[t]
            IN /\ p.pc = "prune"
               /\ SetPass(t, [p EXCEPT !.pc = "done"])
               /\ dirs' = PruneDir(files, dirs, p.directory)
               /\ observer' = IF p.thread = "observer" THEN [observer EXCEPT !.state = "waiting"] ELSE observer
               /\ UNCHANGED <<files, logFile, rulesFile, retryCall, classifyCall, alerts, undoRec, ruleRec, runs, created, faults>>

(***************************************************************************)
(* Undo and the custom rules (the other choices of the menu of main).      *)
(***************************************************************************)
\* str.strip, for blanks
RECURSIVE strip(_)
strip(s) == IF s # "" /\ Char(s, 1) = " " THEN strip(SubSeq(s, 2, Len(s))) ELSE IF s # "" /\ Char(s, Len(s)) = " " THEN strip(SubSeq(s, 1, Len(s) - 1)) ELSE s

\* {dest: src for dest, src in data.items() if directory_input in src}
matching_entries(data, directory_input) == LET Match(e) == Contains(directory_input, e[2]) IN SelectSeq(data, Match)

\* {dest: src for dest, src in data.items() if dest not in matching_entries}
remaining_data(data, matching) == LET Keep(e) == e[1] \notin DictKeys(matching) IN SelectSeq(data, Keep)

\* the loop over the matching entries: makedirs(dirname(src)) and
\* shutil.move(dest, src), an exception of either is logged and skipped
RECURSIVE undo_moves(_, _, _)
undo_moves(fs, ds, entries) == IF entries = <<>> THEN [fs |-> fs, ds |-> ds, failed |-> <<>>] ELSE
    LET dest == entries[1][1]
        src == entries[1][2]
        made == dirname(src) # "" /\ makedirs_ok(fs, dirname(src))
        ds1 == IF made THEN makedirs(ds, dirname(src)) ELSE ds
        moved == made /\ move_ok(fs, ds1, dest, src)
        fs1 == IF moved THEN move(fs, ds1, dest, src) ELSE fs
        rest == undo_moves(fs1, ds1, Tail(entries))
    IN [fs |-> rest.fs, ds |-> rest.ds, failed |-> (IF moved THEN <<>> ELSE <<entries[1]>>) \o rest.failed]

\* no activation of organize_files is running and nothing is monitored
Idle == observer.state = "stopped" /\ \A t \in 1..Len(passes) : ~InFlight(passes[t])

NoUndo == [done |-> FALSE, query |-> "", logBefore |-> EmptyDict, filesBefore |-> <<>>, failed |-> <<>>]

\* no classification was asked for since the rules last changed
NoClassify == [called |-> FALSE, extension |-> "", folder_name |-> ""]

\* the last operation on the custom rules, when nothing else was done since
NoRule == [op |-> "", extension |-> "", folder_name |-> "", before |-> EmptyDict]

UndoQueries == {"r/", "a.jpg ", "Images", "r/a.jpg"}

\* menu choice 2: undo_selected_moves, with the user's input
undo_selected_moves == \E input \in UndoQueries :
    LET directory_input == strip(input)
        data == logFile.data
        matching == matching_entries(data, directory_input)
        after == undo_moves(files, dirs, matching)
        found == logFile.exists /\ Parses(logFile) /\ matching # <<>>
    IN /\ Idle /\ runs < MaxRuns
       /\ runs' = runs + 1
       /\ passes' = <<>>
       /\ undoRec' = [done |-> TRUE, query |-> directory_input, logBefore |-> data, filesBefore |-> files, failed |-> IF found THEN after.failed ELSE <<>>]
       /\ ruleRec' = NoRule
       /\ files' = IF found THEN after.fs ELSE files
       /\ dirs' = IF found THEN after.ds ELSE dirs
       /\ logFile' = IF found THEN write_json(remaining_data(data, matching)) ELSE logFile
       /\ UNCHANGED <<rulesFile, observer, retryCall, classifyCall, alerts, created, faults>>

RuleExtensions == {" .JPG"}

RuleFolders == {"P", ""}

\* menu choice 3: add_custom_rule, with the user's two inputs
add_custom_rule == \E e \in RuleExtensions, f \in RuleFolders :
    LET extension == lower(strip(e))
        folder_name == strip(f)
    IN /\ Idle /\ runs < MaxRuns
       /\ ~rulesFile.exists \/ Parses(rulesFile)
       /\ runs' = runs + 1
       /\ passes' = <<>>
       /\ undoRec' = NoUndo
       /\ ruleRec' = [op |-> "add_custom_rule", extension |-> extension, folder_name |-> folder_name, before |-> load_custom_rules]
       /\ classifyCall' = NoClassify
       /\ rulesFile' = save_custom_rules(DictUpdate(load_custom_rules, extension, folder_name))
       /\ UNCHANGED <<files, dirs, logFile, observer, retryCall, alerts, created, faults>>

\* menu choice 4: reset_custom_rules removes the rules file
reset_custom_rules == /\ Idle /\ runs < MaxRuns
                      /\ runs' = runs + 1
                      /\ passes' = <<>>
                      /\ undoRec' = NoUndo
                      /\ ruleRec' = [NoRule EXCEPT !.op = "reset_custom_rules", !.before = load_custom_rules]
                      /\ classifyCall' = NoClassify
                      /\ rulesFile' = IF rulesFile.exists THEN NoFile ELSE rulesFile
                      /\ UNCHANGED <<files, dirs, logFile, observer, retryCall, alerts, created, faults>>

Root == "r"

\* menu choice 1: organize_files(folder) when the folder exists
organize_files == \E folder \in {Root} :
    /\ Idle /\ runs < MaxRuns
    /\ runs' = runs + 1
    /\ passes' = IF exists(folder) THEN <<NewPass(folder, "main")>> ELSE <<>>
    /\ undoRec' = NoUndo
    /\ ruleRec' = NoRule
    /\ UNCHANGED <<files, dirs, logFile, rulesFile, observer, retryCall, classifyCall, alerts, created, faults>>

(***************************************************************************)
(* The initial directory trees.                                            *)
(***************************************************************************)
InitPaths == <<"r/a.jpg", "r/b.TXT", "r/s/t/a.jpg", "r/Images/a.jpg">>

Contents == DOMAIN Md5

\* the trees of at most MaxFiles files; the two contents are interchangeable,
\* so the first file in the order of InitPaths is given the content "x"
Layouts == {f \in UNION {[S -> Contents] : S \in SUBSET {InitPaths[i] : i \in 1..Len(InitPaths)}} : /\ Cardinality(DOMAIN f) <= MaxFiles
                                                                                                 /\ \A i \in 1..Len(InitPaths) : (InitPaths[i] \in DOMAIN f /\ \A j \in 1..(i - 1) : InitPaths[j] \notin DOMAIN f) => f[InitPaths[i]] = "x"}

DirsOf(f) == {Root} \cup UNION {Ancestors(dirname(p)) : p \in DOMAIN f}

NoRetry == [pc |-> "idle", source |-> "", destination |-> "", retries |-> 0, attempt |-> 0, renames |-> 0, result |-> FALSE, outcomes |-> <<>>, alertsBefore |-> 0]

Stopped == [state |-> "stopped", directory |-> "", queue |-> <<>>]

Init == /\ files \in Layouts
        /\ dirs = DirsOf(files)
        /\ logFile = NoFile
        /\ rulesFile = NoFile
        /\ passes = <<>>
        /\ observer = Stopped
        /\ retryCall = NoRetry
        /\ classifyCall = NoClassify
        /\ alerts = 0
        /\ undoRec = NoUndo
        /\ ruleRec = NoRule
        /\ runs = 0
        /\ created = 0
        /\ faults = 0

Next == \/ organize_files
        \/ undo_selected_moves
        \/ add_custom_rule
        \/ reset_custom_rules
        \/ \E t \in 1..Len(passes) : WalkNext(t)
        \/ \E t \in 1..Len(passes) : ProcessFile(t)
        \/ \E t \in 1..Len(passes) : handle_duplicates(t)
        \/ \E t \in 1..Len(passes) : Prune(t)

Spec == Init /\ [][Next]_vars

TypeOK == /\ \A p \in DOMAIN files : files[p] \in Contents
          /\ \A p \in DOMAIN files : dirname(p) \in dirs
          /\ \A d \in dirs : DirExists(dirname(d))
          /\ runs \in 0..MaxRuns
          /\ faults \in 0..MaxFaults

(***************************************************************************)
(* Organize passes alone: menu choice 1, run after run, on any initial     *)
(* tree and with the rules an earlier run may have stored.                 *)
(***************************************************************************)
\* the rules a stored custom_rules.json may hold when the program starts
StoredRules == {<<<<".txt", "Images">>>>}

InitOrganize == /\ files \in Layouts
                /\ dirs = DirsOf(files)
                /\ logFile = NoFile
                /\ rulesFile \in {NoFile} \cup {write_json(d) : d \in StoredRules}
                /\ passes = <<>>
                /\ observer = Stopped
                /\ retryCall = NoRetry
                /\ classifyCall = NoClassify
                /\ alerts = 0
                /\ undoRec = NoUndo
                /\ ruleRec = NoRule
                /\ runs = 0
                /\ created = 0
                /\ faults = 0

NextOrganize == \/ organize_files
                \/ \E t \in 1..Len(passes) : WalkNext(t)
                \/ \E t \in 1..Len(passes) : ProcessFile(t)
                \/ \E t \in 1..Len(passes) : handle_duplicates(t)
                \/ \E t \in 1..Len(passes) : Prune(t)

SpecOrganize == InitOrganize /\ [][NextOrganize]_vars

(***************************************************************************)
(* Monitoring (start_monitoring, FileHandler).  The observer has one       *)
(* thread, which takes the events from its queue and calls the handler;    *)
(* the call returns when organize_files returns.                           *)
(***************************************************************************)
\* menu choice 5: start_monitoring(folder) when the folder exists
start_monitoring == \E folder \in {Root} :
    /\ Idle /\ runs < MaxRuns
    /\ runs' = runs + 1
    /\ passes' = <<>>
    /\ undoRec' = NoUndo
    /\ ruleRec' = NoRule
    /\ observer' = IF exists(folder) THEN [state |-> "waiting", directory |-> folder, queue |-> <<>>] ELSE observer
    /\ UNCHANGED <<files, dirs, logFile, rulesFile, retryCall, classifyCall, alerts, created, faults>>

\* the files another program may create: <<path, content>>
NewFiles == {<<"r/a.jpg", "x">>, <<"r/a.jpg", "y">>}

NewDirs == {"r/d"}

\* another program creates a file in the monitored tree: the observer queues the event
FileCreated == \E new \in NewFiles : LET path == new[1] c == new[2] IN
    /\ observer.state # "stopped" /\ created < MaxCreated
    /\ ~exists(path) /\ dirname(path) \in dirs
    /\ created' = created + 1
    /\ files' = (path :> c) @@ files
    /\ observer' = [observer EXCEPT !.queue = Append(observer.queue, [src_path |-> path, is_directory |-> FALSE])]
    /\ UNCHANGED <<dirs, logFile, rulesFile, passes, retryCall, classifyCall, alerts, undoRec, ruleRec, runs, faults>>

\* another program creates a directory in the monitored tree
DirCreated == \E path \in NewDirs :
    /\ observer.state # "stopped" /\ created < MaxCreated
    /\ ~exists(path) /\ dirname(path) \in dirs
    /\ created' = created + 1
    /\ dirs' = dirs \cup {path}
    /\ observer' = [observer EXCEPT !.queue = Append(observer.queue, [src_path |-> path, is_directory |-> TRUE])]
    /\ UNCHANGED <<files, logFile, rulesFile, passes, retryCall, classifyCall, alerts, undoRec, ruleRec, runs, faults>>

\* on_created that starts organize_files on a thread of its own and returns at once
on_created_detached(event) == /\ observer' = [observer EXCEPT !.queue = Tail(observer.queue)]
                              /\ passes' = IF event.is_directory THEN passes ELSE Append(passes, NewPass(observer.directory, "observer"))

\* FileHandler.on_created(event), called by the observer's thread: for a
\* file it calls organize_files(self.directory) and returns when that returns
on_created(event) == /\ observer' = [observer EXCEPT !.queue = Tail(observer.queue), !.state = IF event.is_directory THEN "waiting" ELSE "handling"]
                     /\ passes' = IF event.is_directory THEN passes ELSE Append(passes, NewPass(observer.directory, "observer"))

\* the observer's thread takes the next event when it is not inside a handler
Dispatch == /\ observer.state = "waiting" /\ observer.queue # <<>>
            /\ on_created(Head(observer.queue))
            /\ UNCHANGED <<files, dirs, logFile, rulesFile, retryCall, classifyCall, alerts, undoRec, ruleRec, runs, created, faults>>

\* Ctrl+C: observer.stop() and observer.join(), which waits for the handler
KeyboardInterrupt == /\ observer.state \in {"waiting", "dead"}
                     /\ \A t \in 1..Len(passes) : ~InFlight(passes[t])
                     /\ observer' = Stopped
                     /\ UNCHANGED <<files, dirs, logFile, rulesFile, passes, retryCall, classifyCall, alerts, undoRec, ruleRec, runs, created, faults>>

NextWatch == \/ start_monitoring
             \/ FileCreated
             \/ DirCreated
             \/ Dispatch
             \/ KeyboardInterrupt
             \/ \E t \in 1..Len(passes) : WalkNext(t)
             \/ \E t \in 1..Len(passes) : ProcessFile(t)
             \/ \E t \in 1..Len(passes) : handle_duplicates(t)
             \/ \E t \in 1..Len(passes) : Prune(t)

\* monitoring starts on a tree with at most the one file r/s/t/a.jpg
InitWatch == Init /\ DOMAIN files \subseteq {"r/s/t/a.jpg"}

SpecWatch == InitWatch /\ [][NextWatch]_vars

(***************************************************************************)
(* retry_move_file(source, destination, retries, delay).                   *)
(***************************************************************************)
DefaultRetries == 3

\* categorize_error with every error but the permission error non-recoverable
categorize_error_final(error) == IF error = "PermissionError" THEN "recoverable" ELSE "non_recoverable"

\* categorize_error with file-not-found taken for an unknown error
categorize_error_unknown(error) == IF error = "PermissionError" THEN "recoverable" ELSE "unknown"

\* categorize_error with the permission error taken for a non-recoverable one
categorize_error_strict(error) == IF error \in {"PermissionError", "FileNotFoundError"} THEN "non_recoverable" ELSE "unknown"

categorize_error(error) == IF error = "PermissionError" THEN "recoverable" ELSE IF error = "FileNotFoundError" THEN "non_recoverable" ELSE "unknown"

\* alert_user(message): one critical record in the log
alert_user == alerts' = alerts + 1

RetrySources == {"r/a.jpg", "r/s/t/a.jpg"}

RetryDestinations == {"r/Images/a.jpg", "r/b.txt"}

\* the call of retry_move_file, with attempt = 0
retry_move_file == \E source \in RetrySources, destination \in RetryDestinations, retries \in 0..MaxRetries :
    /\ retryCall.pc = "idle"
    /\ retryCall' = [NoRetry EXCEPT !.pc = "loop", !.source = source, !.destination = destination, !.retries = retries, !.alertsBefore = alerts]
    /\ UNCHANGED <<files, dirs, logFile, rulesFile, passes, observer, classifyCall, alerts, undoRec, ruleRec, runs, created, faults>>

\* what os.rename(source, destination) can do: rename the file when the tree
\* allows it, or raise
RenameOutcomes(source, destination) == (IF rename_ok(files, dirs, source, destination) THEN {"ok"} ELSE {}) \cup {"PermissionError", "FileNotFoundError", "OSError"}

\* the counter advanced by two
next_attempt_skip(attempt) == attempt + 2

\* the counter after a failed attempt that is not given up
next_attempt(attempt) == attempt + 1

\* one iteration of the while loop: os.rename and the handling of its exception
RenameAttempt == \E outcome \in RenameOutcomes(retryCall.source, retryCall.destination) :
    LET c == [retryCall EXCEPT !.renames = @ + 1, !.outcomes = Append(@, outcome)]
    IN /\ retryCall.pc = "loop" /\ retryCall.attempt < retryCall.retries
       /\ IF outcome = "ok"
          THEN /\ files' = IF c.source = c.destination THEN files ELSE (c.destination :> files[c.source]) @@ Without(files, c.source)
               /\ retryCall' = [c EXCEPT !.pc = "returned", !.result = TRUE]
          ELSE /\ files' = files
               /\ retryCall' = IF categorize_error(outcome) = "non_recoverable" THEN [c EXCEPT !.pc = "returned", !.result = FALSE] ELSE [c EXCEPT !.attempt = next_attempt(@)]
       /\ UNCHANGED <<dirs, logFile, rulesFile, passes, observer, classifyCall, alerts, undoRec, ruleRec, runs, created, faults>>

\* the loop ends without a success: the failure is logged, the user alerted
RetriesExhausted == /\ retryCall.pc = "loop" /\ retryCall.attempt >= retryCall.retries
                    /\ alert_user
                    /\ retryCall' = [retryCall EXCEPT !.pc = "returned", !.result = FALSE]
                    /\ UNCHANGED <<files, dirs, logFile, rulesFile, passes, observer, classifyCall, undoRec, ruleRec, runs, created, faults>>

InitRetry == Init /\ Cardinality(DOMAIN files) <= 1

NextRetry == retry_move_file \/ RenameAttempt \/ RetriesExhausted

SpecRetry == InitRetry /\ [][NextRetry]_vars

\* the call runs on one thread: os.rename and time.sleep return, so the loop
\* takes its next step as long as it has one
SpecRetryFair == SpecRetry /\ WF_vars(RenameAttempt) /\ WF_vars(RetriesExhausted)

(***************************************************************************)
(* The classification of one extension, as organize_files does it, between *)
(* the changes of the custom rules.                                        *)
(***************************************************************************)
BuiltInExtensions == UNION {EXTENSIONS[i][1] : i \in 1..Len(EXTENSIONS)}

ClassifyExtensions == BuiltInExtensions \cup {"", ".xyz", ".JPG", ".jpg.bak2"}

ClassifyRules == {EmptyDict, <<<<".jpg", "P">>>>, <<<<".jpg", "">>>>, <<<<".xyz", "Q">>, <<".txt", "Images">>>>, <<<<".log", "Logs">>, <<"", "Plain">>>>}

InitClassify == /\ files = <<>>
                /\ dirs = {Root}
                /\ logFile = NoFile
                /\ rulesFile \in {NoFile} \cup {write_json(d) : d \in ClassifyRules}
                /\ passes = <<>>
                /\ observer = Stopped
                /\ retryCall = NoRetry
                /\ classifyCall = NoClassify
                /\ alerts = 0
                /\ undoRec = NoUndo
                /\ ruleRec = NoRule
                /\ runs = 0
                /\ created = 0
                /\ faults = 0

\* custom_rules = load_custom_rules() and the choice of folder_name for one extension
Classify == \E file_extension \in ClassifyExtensions :
    /\ classifyCall' = [called |-> TRUE, extension |-> file_extension, folder_name |-> folder_name_of(file_extension, load_custom_rules)]
    /\ UNCHANGED <<files, dirs, logFile, rulesFile, passes, observer, retryCall, alerts, undoRec, ruleRec, runs, created, faults>>

NextClassify == Classify \/ add_custom_rule \/ reset_custom_rules

SpecClassify == InitClassify /\ [][NextClassify]_vars

(***************************************************************************)
(* The movement log under a sequence of calls of log_movement(src, dest).  *)
(***************************************************************************)
LedgerSources == {"r/a.jpg", "r/b.TXT", "r/s/t/a.jpg"}

LedgerDestinations == {"r/Images/a.jpg", "r/P/a.jpg", "r/Documents/b.TXT"}

InitLedger == Init /\ DOMAIN files = {}

\* one call of log_movement; json.load raises when the stored text does not
\* parse, and the file is then left as it is
RecordMovement == \E src \in LedgerSources, dest \in LedgerDestinations :
    /\ log_movement_ok(logFile)
    /\ logFile' = log_movement(logFile, src, dest)
    /\ UNCHANGED <<files, dirs, rulesFile, passes, observer, retryCall, classifyCall, alerts, undoRec, ruleRec, runs, created, faults>>

NextLedger == RecordMovement

SpecLedger == InitLedger /\ [][NextLedger]_vars

(***************************************************************************)
(* Properties.                                                             *)
(***************************************************************************)
Range(s) == {s[i] : i \in 1..Len(s)}

Last(s) == s[Len(s)]

\* C1: after an organize pass moved a file from x to y and recorded it, an
\* undo whose query is a substring of x puts the file back at x and leaves
\* no record of the move in the log
C1_UndoReversesMove == undoRec.done => \A e \in Range(undoRec.logBefore) :
    LET x == e[1]
        y == e[2]
    IN (x # y /\ Contains(undoRec.query, x) /\ y \in DOMAIN undoRec.filesBefore) => (x \in DOMAIN files /\ files[x] = undoRec.filesBefore[y] /\ y \notin DOMAIN files /\ e \notin Range(logFile.data))

\* C2: after log_movement(a, b) the undo lookup with the query a selects the
\* record (dest = b, original = a), and only it when the log holds one
\* record; once the selected records are removed the query selects nothing
C2_LedgerRoundTrip == \A t \in 1..Len(passes) : \A m \in Range(passes[t].moves) : m.logged =>
    LET selected == matching_entries(logFile.data, m.src)
    IN /\ <<m.dst, m.src>> \in Range(selected)
       /\ Len(logFile.data) = 1 => Len(selected) = 1
       /\ matching_entries(remaining_data(logFile.data, selected), m.src) = <<>>

\* C3: a non-recoverable error (file not found) ends the call at once with
\* Failure: it is the last rename attempt, the only one when it is the
\* first, and the alert is not fired
C3_NonRecoverableStops == \A i \in 1..Len(retryCall.outcomes) : retryCall.outcomes[i] = "FileNotFoundError" =>
    /\ i = Len(retryCall.outcomes) /\ retryCall.renames = i
    /\ retryCall.pc = "returned" /\ retryCall.result = FALSE
    /\ alerts = retryCall.alertsBefore

C3_Witness == retryCall.pc = "returned" /\ retryCall.outcomes = <<"FileNotFoundError">> /\ retryCall.renames = 1 /\ retryCall.retries = DefaultRetries

AllRecoverable(s) == \A i \in 1..Len(s) : s[i] = "PermissionError"

\* C4: after k-1 recoverable failures, k <= retries, the call goes on to
\* attempt k; when attempt k succeeds the call returns Success after exactly
\* k renames, the file is at the destination and no alert is fired
C4_SuccessOnAttemptK == LET o == retryCall.outcomes IN
    /\ (AllRecoverable(o) /\ Len(o) < retryCall.retries) => (retryCall.pc = "loop" /\ retryCall.attempt = Len(o) /\ alerts = retryCall.alertsBefore)
    /\ (o # <<>> /\ Last(o) = "ok" /\ AllRecoverable(SubSeq(o, 1, Len(o) - 1))) =>
          /\ retryCall.pc = "returned" /\ retryCall.result = TRUE
          /\ retryCall.renames = Len(o) /\ Len(o) <= retryCall.retries
          /\ retryCall.destination \in DOMAIN files
          /\ alerts = retryCall.alertsBefore

C4_Witness == retryCall.retries = DefaultRetries /\ retryCall.outcomes = <<"PermissionError", "ok">> /\ retryCall.renames = 2 /\ retryCall.result = TRUE

\* C5: when every rename attempt fails with a recoverable or unknown error,
\* the call returns Failure after exactly retries attempts and fires the
\* alert exactly once; no call fires it more than once
C5_ExhaustionAlertsOnce == /\ alerts - retryCall.alertsBefore \in {0, 1}
                           /\ (retryCall.pc = "returned" /\ \A i \in 1..Len(retryCall.outcomes) : retryCall.outcomes[i] \in {"PermissionError", "OSError"}) =>
                                 /\ retryCall.renames = retryCall.retries
                                 /\ retryCall.result = FALSE
                                 /\ alerts = retryCall.alertsBefore + 1

C5_Witness == retryCall.pc = "returned" /\ retryCall.retries = DefaultRetries /\ retryCall.outcomes = <<"PermissionError", "OSError", "PermissionError">> /\ alerts = retryCall.alertsBefore + 1

\* C6: every file with a new digest is moved to <root>/<category>/<filename>
\* under the retry policy (a recoverable failure is retried up to
\* DefaultRetries attempts and exhaustion fires the alert), and its movement
\* is recorded exactly when the move succeeded
C6_MoveThroughRetryPolicy == \A t \in 1..Len(passes) : \A m \in Range(passes[t].moves) :
    /\ dirname(dirname(m.dst)) = passes[t].directory /\ basename(m.dst) = basename(m.src)
    /\ m.logged <=> m.result = "ok"
    /\ m.result = "PermissionError" => (m.attempts = DefaultRetries /\ alerts >= 1)

Min(S) == CHOOSE i \in S : \A j \in S : i <= j

\* the index of the first scanned file with the digest of the i-th
FirstSeen(scanned, i) == Min({j \in 1..i : scanned[j].digest = scanned[i].digest})

\* the duplicate groups and the moved files a scan order must give
RECURSIVE GroupsOf(_, _)
GroupsOf(scanned, n) == IF n = 0 THEN <<>> ELSE GroupsOf(scanned, n - 1) \o (IF FirstSeen(scanned, n) < n THEN <<<<scanned[n].path, scanned[FirstSeen(scanned, n)].path>>>> ELSE <<>>)

RECURSIVE FirstsOf(_, _)
FirstsOf(scanned, n) == IF n = 0 THEN <<>> ELSE FirstsOf(scanned, n - 1) \o (IF FirstSeen(scanned, n) = n THEN <<scanned[n].path>> ELSE <<>>)

ScanDone(p) == p.pc = "walk" /\ p.todo = <<>> /\ p.stack = <<>>

\* C7: in a pass, in scan order, the first file of each digest is handed to
\* the move towards <root>/<category>/<filename>, and every later file of a
\* seen digest gives exactly one group (that file, the first-seen path of
\* the digest) and is still at its path until the resolver runs
C7_DuplicateGrouping == \A t \in 1..Len(passes) : LET p == passes[t] IN
    /\ p.duplicates = GroupsOf(p.scanned, Len(p.scanned))
    /\ [i \in 1..Len(p.moves) |-> p.moves[i].src] = FirstsOf(p.scanned, Len(p.scanned))
    /\ \A m \in Range(p.moves) : dirname(dirname(m.dst)) = p.directory /\ basename(m.dst) = basename(m.src)
    /\ \A g \in Range(p.duplicates) : (\A m \in Range(p.moves) : m.src # g[1]) /\ (p.pc = "walk" => g[1] \in DOMAIN files)

C7_Witness == \E t \in 1..Len(passes) : LET p == passes[t] IN
    /\ ScanDone(p) /\ Len(p.scanned) = 3
    /\ p.scanned[1].digest = p.scanned[3].digest /\ p.scanned[1].digest # p.scanned[2].digest
    /\ p.duplicates = <<<<p.scanned[3].path, p.scanned[1].path>>>>
    /\ Len(p.moves) = 2 /\ p.moves[1].result = "ok" /\ p.moves[2].result = "ok"
    /\ p.scanned[3].path \in DOMAIN files

\* C8: with a custom rule for the extension the category is the custom one;
\* without one it is the category of the built-in group that contains the
\* extension, or "Others" when no group contains it
C8_CustomFirstTotal == classifyCall.called => LET e == classifyCall.extension
                                                    rules == load_custom_rules
                                                IN IF \E r \in Range(rules) : r[1] = e
                                                   THEN \E r \in Range(rules) : r[1] = e /\ classifyCall.folder_name = r[2]
                                                   ELSE \/ \E g \in Range(EXTENSIONS) : e \in g[1] /\ classifyCall.folder_name = g[2]
                                                        \/ (\A g \in Range(EXTENSIONS) : e \notin g[1]) /\ classifyCall.folder_name = "Others"

\* C9: with the delete disposition the resolver removes every recorded
\* duplicate and leaves every moved original at its new place, unchanged
C9_DeleteSparesOriginals == [][\A t \in (1..Len(passes)) \cap (1..Len(passes')) :
    (ScanDone(passes[t]) /\ passes'[t].pc = "prune" /\ passes'[t].choice = "yes") =>
        /\ \A g \in Range(passes[t].duplicates) : g[1] \notin DOMAIN files'
        /\ \A m \in Range(passes[t].moves) : (m.result = "ok" /\ m.dst \in DOMAIN files) => (m.dst \in DOMAIN files' /\ files'[m.dst] = files[m.dst])]_vars

NumInFlight == Cardinality({t \in 1..Len(passes) : InFlight(passes[t])})

\* C10: while a directory is monitored at most one organize pass is in
\* flight, and it is the one the observer's thread is inside; an event that
\* arrives meanwhile stays in the queue
C10_SingleFlight == /\ NumInFlight <= 1
                    /\ NumInFlight = 1 <=> observer.state = "handling"

C10_Witness == /\ \E t \in 1..Len(passes) : InFlight(passes[t]) /\ passes[t].scanned # <<>>
               /\ \E ev \in Range(observer.queue) : ~ev.is_directory

\* C11: a failed move of a file does not abort the pass: the step leaves the
\* file at its path, writes nothing to the movement log, and the pass is
\* still in its loop with the rest of the files, the directories to visit
\* and the duplicates it had
C11_FailedMoveContained == [][\A t \in (1..Len(passes)) \cap (1..Len(passes')) :
    (Len(passes'[t].moves) = Len(passes[t].moves) + 1 /\ Last(passes'[t].moves).result # "ok") =>
        /\ Last(passes'[t].moves).src \in DOMAIN files' /\ files' = files
        /\ logFile' = logFile /\ ~Last(passes'[t].moves).logged
        /\ passes'[t].pc = "walk" /\ passes'[t].todo = Tail(passes[t].todo) /\ passes'[t].stack = passes[t].stack
        /\ passes'[t].duplicates = passes[t].duplicates]_vars

C11_Witness == \E t \in 1..Len(passes) : LET p == passes[t] IN
    /\ p.pc = "done" /\ Len(p.moves) = 2 /\ p.duplicates # <<>> /\ p.choice = "yes"
    /\ p.moves[1].result = "PermissionError" /\ p.moves[1].src \in DOMAIN files
    /\ p.moves[2].result = "ok" /\ p.moves[2].logged /\ p.moves[2].dst \in DOMAIN files
    /\ logFile.data = <<<<p.moves[2].src, p.moves[2].dst>>>>

\* C12: a pass in which the digest of a file could not be computed is not
\* aborted by it: it skips the file and goes on
C12_ReadErrorSkipsFile == \A t \in 1..Len(passes) : passes[t].unread # <<>> => passes[t].pc # "crashed"

\* C13: when the record of a move cannot be written the pass is aborted: the
\* move without a record is the last move of the pass, which has stopped
C13_LedgerErrorAborts == \A t \in 1..Len(passes) : \A i \in 1..Len(passes[t].moves) :
    (passes[t].moves[i].result = "ok" /\ ~passes[t].moves[i].logged) => (passes[t].pc = "crashed" /\ i = Len(passes[t].moves))

\* C14: an undo leaves alone every record whose original path does not
\* contain the query: the record is still in the log, and the file it
\* describes is where it was, with its content
C14_UndoFrame == undoRec.done => \A e \in Range(undoRec.logBefore) :
    LET original == e[1]
        moved_to == e[2]
    IN ~Contains(undoRec.query, original) =>
          /\ e \in Range(logFile.data)
          /\ moved_to \in DOMAIN undoRec.filesBefore => (moved_to \in DOMAIN files /\ files[moved_to] = undoRec.filesBefore[moved_to])

\* C17: a record whose file could not be moved back by an undo is still in
\* the log after that undo
C17_FailedUndoKeepsRecord == undoRec.done => \A e \in Range(undoRec.failed) : e \in Range(logFile.data)

\* C19: no two records of the log have the same new (post-move) path
C19_NewPathUnique == \A i, j \in 1..Len(logFile.data) : i # j => logFile.data[i][2] # logFile.data[j][2]

\* C15: a call of log_movement(src, dest) leaves a log file that holds the
\* ledger stored before with src mapped to dest: the file parses, every
\* record under another key is kept, and no other key appears
C15_UpsertPreservesLedger == [][\A src \in LedgerSources, dest \in LedgerDestinations :
    (log_movement_ok(logFile) /\ logFile' = log_movement(logFile, src, dest)) =>
        /\ logFile'.exists /\ Parses(logFile')
        /\ DictKeys(logFile'.data) = DictKeys(logFile.data) \cup {src}
        /\ DictGet(logFile'.data, src) = dest
        /\ \A e \in Range(logFile.data) : e[1] # src => e \in Range(logFile'.data)]_vars

\* C16: after add_custom_rule(e, c) the stored rules are the rules stored
\* before with e mapped to c, every other rule unchanged; after
\* reset_custom_rules the loaded rules are empty and every extension is
\* classified by the built-in table
C16_RulesPersisted == /\ ruleRec.op = "add_custom_rule" =>
                            /\ rulesFile.exists /\ Parses(rulesFile)
                            /\ DictKeys(load_custom_rules) = DictKeys(ruleRec.before) \cup {ruleRec.extension}
                            /\ DictGet(load_custom_rules, ruleRec.extension) = ruleRec.folder_name
                            /\ \A r \in Range(ruleRec.before) : r[1] # ruleRec.extension => r \in Range(load_custom_rules)
                      /\ ruleRec.op = "reset_custom_rules" =>
                            /\ load_custom_rules = EmptyDict
                            /\ classifyCall.called => classifyCall.folder_name = get_folder_name(classifyCall.extension, EXTENSIONS)

C16_Witness == /\ ruleRec.op = "reset_custom_rules"
               /\ ruleRec.before = <<<<".xyz", "Q">>, <<".txt", "Images">>, <<".jpg", "P">>>>
               /\ classifyCall.called /\ classifyCall.extension = ".txt" /\ classifyCall.folder_name = "Documents"

\* the directories strictly below the directory top
Below(ds, top) == {d \in ds : d # top /\ top \in Ancestors(d)}

\* C18: when the clean-up of a pass ends, every directory below the root of
\* the pass has at least one entry
C18_NoEmptyDirAfterPrune == [][\A t \in (1..Len(passes)) \cap (1..Len(passes')) :
    (passes[t].pc = "prune" /\ passes'[t].pc = "done") =>
        \A d \in Below(dirs', passes[t].directory) : ListFiles(files', d) # {} \/ ListDirs(dirs', d) # {}]_vars

C18_Witness == \E t \in 1..Len(passes) : LET p == passes[t] IN
    /\ p.pc = "done" /\ p.choice = "no"
    /\ \E g \in Range(p.duplicates) : g[1] = "r/b.TXT"
    /\ "r/b.TXT" \in DOMAIN files /\ "r/Documents" \notin dirs
    /\ \E m \in Range(p.moves) : m.src = "r/s/t/a.jpg" /\ m.result = "ok"
    /\ "r/s/t" \notin dirs /\ "r/s" \notin dirs
    /\ Below(dirs, p.directory) = {"r/Images"}

\* the files directly inside the backup directory
InBackup(fs) == {q \in DOMAIN fs : dirname(q) = "backup"}

\* C20: with the backup disposition the backup directory exists afterwards,
\* every duplicate of the batch is in it with its content, and the directory
\* has one more file for each of them (none replaced another file)
C20_BackupKeepsEveryDuplicate == [][\A t \in (1..Len(passes)) \cap (1..Len(passes')) :
    (ScanDone(passes[t]) /\ passes'[t].pc = "prune" /\ passes'[t].choice = "backup") =>
        LET dups == {g[1] : g \in Range(passes[t].duplicates)} \cap DOMAIN files
        IN /\ "backup" \in dirs'
           /\ \A d \in dups : d \notin DOMAIN files' /\ join("backup", basename(d)) \in DOMAIN files' /\ files'[join("backup", basename(d))] = files[d]
           /\ Cardinality(InBackup(files')) = Cardinality(InBackup(files)) + Cardinality(dups)]_vars

\* the failures among the outcomes that count as an attempt
Retried(outcomes) == Cardinality({i \in 1..Len(outcomes) : outcomes[i] \in {"PermissionError", "OSError"}})

\* C21: a call of retry_move_file never makes more than retries rename
\* attempts, its counter is the number of recoverable and unknown failures
\* so far (an unknown error counts like a recoverable one), and the call
\* always returns
C21_AlwaysTerminates == /\ [](retryCall.renames <= retryCall.retries /\ retryCall.attempt = Retried(retryCall.outcomes))
                        /\ (retryCall.pc = "loop") ~> (retryCall.pc = "returned")

C21_Witness == /\ retryCall.pc = "returned" /\ retryCall.retries = DefaultRetries /\ ~retryCall.result
               /\ retryCall.outcomes = <<"OSError", "PermissionError", "OSError">> /\ retryCall.attempt = DefaultRetries

\* every file under the directory of the pass sits in the folder of its category
Organized(fs, p) == \A path \in DOMAIN fs : p.directory \in Ancestors(dirname(path)) =>
    dirname(path) = join(p.directory, folder_name_of(lower(splitext(basename(path))), p.custom_rules))

\* C22: a pass over a tree whose files all sit in their category folders
\* (the pass has so far moved nothing to another path and found no
\* duplicate, so the tree is the one it started on) changes no file, finds
\* no duplicate and leaves the movement ledger as it was
C22_OrganizedPassIdempotent == [][\A t \in (1..Len(passes)) \cap (1..Len(passes')) :
    (/\ passes[t].pc = "walk" /\ Organized(files, passes[t]) /\ passes[t].duplicates = <<>>
     /\ \A m \in Range(passes[t].moves) : m.src = m.dst) =>
        /\ files' = files
        /\ passes'[t].duplicates = <<>>
        /\ logFile' = logFile]_vars

\* the pass has dealt with the duplicates it found
Ended(p) == p.pc \in {"prune", "done"}

\* the files that were under the directory of the pass when it started
Under(p) == {path \in DOMAIN p.before : p.directory \in Ancestors(dirname(path))}

HasContent(fs, c) == \E path \in DOMAIN fs : fs[path] = c

\* C23: after a pass in which the duplicates were deleted, every content that
\* a file under the directory had before the pass is still the content of
\* some file
C23_DeleteKeepsEveryContent == \A t \in 1..Len(passes) : (Ended(passes[t]) /\ passes[t].choice = "yes") =>
    \A path \in Under(passes[t]) : HasContent(files, passes[t].before[path])

\* C24: after a pass, two files that had the same filename and different
\* contents before it both still have their content in some file; and a
\* move of the pass to a path that another file occupies leaves that file
\* as it is
C24_MoveNeverReplaces == /\ [](\A t \in 1..Len(passes) : Ended(passes[t]) =>
                                 \A a, b \in Under(passes[t]) : (basename(a) = basename(b) /\ passes[t].before[a] # passes[t].before[b]) =>
                                     HasContent(files, passes[t].before[a]) /\ HasContent(files, passes[t].before[b]))
                         /\ [][\A t \in (1..Len(passes)) \cap (1..Len(passes')) :
                                 (/\ Len(passes'[t].moves) = Len(passes[t].moves) + 1
                                  /\ Last(passes'[t].moves).result = "ok"
                                  /\ Last(passes'[t].moves).dst # Last(passes'[t].moves).src
                                  /\ Last(passes'[t].moves).dst \in DOMAIN files) =>
                                     files'[Last(passes'[t].moves).dst] = files[Last(passes'[t].moves).dst]]_vars

====
